---- MODULE Spec2Model ----
(***************************************************************************)
(* Model of the negotiation server: the turn loop of                      *)
(* negotiation_engine.run_negotiation, the summary step                   *)
(* api_server.get_negotiation_summary and the request handler             *)
(* api_server.start_negotiation_endpoint.                                  *)
(*                                                                         *)
(* Time is counted in whole seconds.  The conversational sessions and the  *)
(* summarizer are remote services: what they reply, how long they take and *)
(* whether they raise is chosen nondeterministically from small sets.      *)
(***************************************************************************)
EXTENDS Integers, Sequences, FiniteSets, TLC

(* ------------------------------ bounds -------------------------------- *)

\* largest duration_seconds a caller passes (the smallest is -1)
MaxDuration == 7
\* longest time one send_message call takes, in seconds
MaxCallTime == 1
\* longest time a time.sleep lasts beyond what was asked for, in seconds
MaxOvershoot == 1

(* ------------------------- program constants -------------------------- *)

\* random.uniform(2, 5): the shortest and the longest pacing pause
PauseMin == 2
PauseMax == 5

\* os.getenv returns None for a variable that is not set
None == "<None>"

FixedMsg == "The negotiation did not start or an error occurred."
KeyMissingMsg == "Summarization failed: API key not configured."
SummaryFailPrefix == "Could not generate summary: "
\* stands for "no value: the exception left the function"
Raised == "<raised>"
ConfigDetail == "Google API keys are not configured on the server. Please check environment variables."
InitFailPrefix == "Failed to initialize AI models: "
BindingError == "TypeError: run_negotiation() missing 2 required positional arguments: 'api_key_1' and 'api_key_2'"

(* ----------------------- inputs and environment ----------------------- *)

Durations == (-1)..MaxDuration
CallTimes == 0..MaxCallTime
Pauses == PauseMin..PauseMax
\* speaker labels a caller passes: distinct ones and equal ones
LabelPairs == {<<"Ava (Mars)", "Bo (Earth)">>, <<"Ava (Mars)", "Ava (Mars)">>}
Prompts == {"p"}
Topics == {"trade"}
\* what a scripted session answers: the empty string, which is a valid reply
\* (an echoing session gives the non-empty ones)
Replies == {""}
\* str(e) of the exception a failing remote call raises
Errors == {"quota"}
\* what is raised: an Exception, or a BaseException that is no Exception
\* (KeyboardInterrupt, SystemExit, asyncio.CancelledError)
ExceptionKinds == {"Exception", "BaseException"}
\* how a print call ends: it returns, or it raises an Exception (OSError
\* of a closed stdout, UnicodeEncodeError of a label or a reply) or a
\* BaseException (KeyboardInterrupt)
PrintOutcomes == {"none"} \cup ExceptionKinds
\* str(e) of the exception a print raises
PrintError == "stdout"
\* the values GOOGLE_API_KEY and GOOGLE_API_KEY_2 can have in the environment
EnvValues1 == {None, "", "k1"}
EnvValues2 == {None, "", "k2"}

\* mutant: a test for None in place of a test for falsiness
TruthyNotNone(s) == s # None

\* Python truthiness of an optional string
Truthy(s) == s # None /\ s # ""

VARIABLES
    API_KEY_1, API_KEY_2,      \* module globals of api_server
    genai_api_key,             \* the process-wide key set by genai.configure
    now,                       \* time.time()
    pc,                        \* position of the run_negotiation call
    caller,                    \* who called run_negotiation
    echo,                      \* the two sessions answer "ack:" + input
    model1_name, model2_name, initial_prompt, duration_seconds,
    api_key_1, api_key_2,      \* parameters of run_negotiation
    negotiation_start_time, transcript, turn_counter, current_message,
    outcome,                   \* how the run_negotiation call ended
    sends,                     \* the send_message calls issued, in order
    pause_exc,                 \* what the last simulate_thinking_pause raised
    print_failed,              \* a print of run_negotiation has raised
    hpc, chats, response,      \* the request handler: position, sessions, result
    summary,                   \* what get_negotiation_summary returned
    summary_input,             \* the transcript it was given
    summarizer_prompts,        \* the generate_content_async calls issued
    summary_pc,                \* position of the get_negotiation_summary call
    summary_exc                \* what was raised inside get_negotiation_summary

engineVars == <<pc, caller, echo, model1_name, model2_name, initial_prompt,
                duration_seconds, api_key_1, api_key_2, negotiation_start_time,
                transcript, turn_counter, current_message, outcome, sends,
                pause_exc, print_failed>>
summaryVars == <<summary, summary_input, summarizer_prompts, summary_pc,
                 summary_exc>>
envVars == <<API_KEY_1, API_KEY_2>>
handlerVars == <<hpc, chats, response>>
vars == <<envVars, genai_api_key, now, engineVars, handlerVars, summaryVars>>

(* --------------------------- api_server globals ----------------------- *)

\* os.getenv("GOOGLE_API_KEY_2", API_KEY_1): the default is used only when
\* the variable is not set at all
GetenvDefault(value, default) == IF value = None THEN default ELSE value

(* ------------------------------ records ------------------------------- *)

TurnData(turn, speaker, message) ==
    [turn |-> turn, speaker |-> speaker, message |-> message]
ErrorRecord(e) == [error |-> e]
IsError(item) == "error" \in DOMAIN item

(* ------------------------- negotiation_engine ------------------------- *)

\* what a send_message call can do: a scripted session replies with any of
\* Replies or raises; an echoing session replies "ack:" + input
SessionOutcomes(message) ==
    IF echo
    THEN {[ok |-> TRUE, text |-> "ack:" \o message, exc |-> "none"]}
    ELSE {[ok |-> TRUE, text |-> r, exc |-> "none"] : r \in Replies}
         \cup {[ok |-> FALSE, text |-> e, exc |-> k] :
                   e \in Errors, k \in ExceptionKinds}

\* the parameters of run_negotiation; none has a default
RunNegotiationParams ==
    {"model1_session", "model2_session", "model1_name", "model2_name",
     "initial_prompt", "duration_seconds", "api_key_1", "api_key_2"}

\* Python binds a keyword call when every parameter without a default is
\* given and no unknown keyword is; otherwise the call raises TypeError
\* before the body runs
ArgumentsBind(kwargs) ==
    /\ RunNegotiationParams \subseteq DOMAIN kwargs
    /\ DOMAIN kwargs \subseteq RunNegotiationParams

\* mutant of the loop condition: <= written for <
LoopConditionInclusive == now - negotiation_start_time <= duration_seconds

\* while time.time() - negotiation_start_time < duration_seconds
LoopCondition == now - negotiation_start_time < duration_seconds

\* mutant: the re-check after speaker 2's turn left out
BreakConditionNever == FALSE

\* if time.time() - negotiation_start_time >= duration_seconds: break
BreakCondition == now - negotiation_start_time >= duration_seconds

\* finally: print("--- Negotiation Engine Finished ---"); return transcript.
\* The return discards an exception in flight; when the print itself raises
\* (as p93) the return is not reached and that exception leaves the function.
Finally(t, p93) ==
    IF p93 = "none"
    THEN [transcript |-> t, outcome |-> "returned", print_failed |-> FALSE]
    ELSE [transcript |-> t, outcome |-> "raised", print_failed |-> TRUE]

\* a statement of the try block raised e of kind exc.
\* except Exception as e: print(...); transcript.append({"error": str(e)}),
\* where a print that raises (as p88) skips the append; then the finally
\* clause.  A raise that is no Exception passes the except clause by.
OnException(t, e, exc, p88, p93) ==
    IF exc = "Exception"
    THEN IF p88 = "none"
         THEN Finally(Append(t, ErrorRecord(e)), p93)
         ELSE [Finally(t, p93) EXCEPT !.print_failed = TRUE]
    ELSE Finally(t, p93)

\* the first statements of run_negotiation, up to the try block; the print
\* of line 28 is outside it, so when it raises the call ends by raising
RunNegotiation(kwargs, who, echoing) ==
    /\ caller' = who
    /\ echo' = echoing
    /\ model1_name' = kwargs.model1_name
    /\ model2_name' = kwargs.model2_name
    /\ initial_prompt' = kwargs.initial_prompt
    /\ duration_seconds' = kwargs.duration_seconds
    /\ api_key_1' = kwargs.api_key_1
    /\ api_key_2' = kwargs.api_key_2
    /\ \E p28 \in PrintOutcomes :
          IF p28 = "none"
          THEN /\ negotiation_start_time' = now
               /\ transcript' = <<>>
               /\ turn_counter' = 0
               /\ pc' = "opening_pause"
               /\ UNCHANGED <<outcome, print_failed>>
          ELSE /\ pc' = "done"
               /\ outcome' = "raised"
               /\ print_failed' = TRUE
               /\ UNCHANGED <<negotiation_start_time, transcript, turn_counter>>
    /\ UNCHANGED <<current_message, sends, pause_exc>>

\* how a time.sleep of d seconds ends: it returns after d seconds or up to
\* MaxOvershoot later, or a signal arrives before that and it raises
\* KeyboardInterrupt, which is no Exception
SleepOutcomes(d) ==
    {[ok |-> TRUE, slept |-> d + v, exc |-> "none"] : v \in 0..MaxOvershoot}
    \cup {[ok |-> FALSE, slept |-> t, exc |-> "BaseException"] :
              t \in 0..(d + MaxOvershoot - 1)}

\* the run ends as r, the result of the except and finally clauses
EndRun(r) ==
    /\ transcript' = r.transcript
    /\ outcome' = r.outcome
    /\ print_failed' = (print_failed \/ r.print_failed)
    /\ pc' = "done"

\* simulate_thinking_pause: print(...), then time.sleep(random.uniform(2, 5)),
\* called inside the try block: a print or a sleep that raises ends the run
\* like a send that raises, with no pause done or no send made
SimulateThinkingPause(next) ==
    /\ \/ \E d \in Pauses : \E o \in SleepOutcomes(d) :
            /\ now' = now + o.slept
            /\ pause_exc' = o.exc
            /\ IF o.ok
               THEN pc' = next /\ UNCHANGED <<transcript, outcome, print_failed>>
               ELSE \E p93 \in PrintOutcomes :
                       EndRun(OnException(transcript, "", o.exc, "none", p93))
       \/ \E p10 \in ExceptionKinds, p88, p93 \in PrintOutcomes :
            /\ now' = now
            /\ pause_exc' = p10
            /\ EndRun([OnException(transcript, PrintError, p10, p88, p93)
                          EXCEPT !.print_failed = TRUE])
    /\ UNCHANGED <<caller, echo, model1_name, model2_name, initial_prompt,
                   duration_seconds, api_key_1, api_key_2,
                   negotiation_start_time, turn_counter,
                   current_message, sends>>
    /\ UNCHANGED <<envVars, handlerVars, summaryVars>>

\* a turn up to its wait: simulate_thinking_pause(...), then
\* genai.configure(api_key=key), which writes the process-wide key, then
\* session.send_message(...) is called and waits for the remote reply.  A
\* pause that raises ends the run before the key is written.
PauseAndConfigure(key, next) ==
    /\ SimulateThinkingPause(next)
    /\ genai_api_key' = IF pc' = next THEN key ELSE genai_api_key

\* the end of session.send_message(message).text, which was called when the
\* pause before it returned, and the statements up to the next pause or
\* deadline check.  The call has taken c seconds and ends as o; until then
\* the transcript, the counter and the sends that ended are as they were; a reply is appended as a turn record and then
\* printed, and the counter is advanced after the print; a raise of the call
\* or of the print goes to the except clause.
SendTurn(to, message, speaker, turn, counter, next) ==
    \E c \in CallTimes, o \in SessionOutcomes(message) :
        /\ now' = now + c
        /\ sends' = Append(sends, [to |-> to, message |-> message,
                                   started |-> now, finished |-> now + c,
                                   ok |-> o.ok, reply |-> o.text,
                                   exc |-> o.exc])
        /\ IF o.ok
           THEN /\ current_message' = o.text
                /\ \/ /\ transcript' = Append(transcript,
                                              TurnData(turn, speaker, o.text))
                      /\ turn_counter' = counter
                      /\ pc' = next
                      /\ UNCHANGED <<outcome, print_failed>>
                   \/ \E p \in ExceptionKinds, p88, p93 \in PrintOutcomes :
                      /\ EndRun([OnException(
                                    Append(transcript,
                                           TurnData(turn, speaker, o.text)),
                                    PrintError, p, p88, p93)
                                 EXCEPT !.print_failed = TRUE])
                      /\ turn_counter' = turn_counter
           ELSE /\ \E p88, p93 \in PrintOutcomes :
                      EndRun(OnException(transcript, o.text, o.exc, p88, p93))
                /\ UNCHANGED <<current_message, turn_counter>>
        /\ UNCHANGED <<caller, echo, model1_name, model2_name, initial_prompt,
                       duration_seconds, api_key_1, api_key_2,
                       negotiation_start_time, pause_exc>>
        /\ UNCHANGED <<envVars, genai_api_key, handlerVars, summaryVars>>

\* a deadline check: go on, or leave the loop and run the finally clause
DeadlineCheck(goOn, next) ==
    /\ IF goOn
       THEN pc' = next /\ UNCHANGED <<transcript, outcome, print_failed>>
       ELSE \E p93 \in PrintOutcomes : EndRun(Finally(transcript, p93))
    /\ UNCHANGED <<caller, echo, model1_name, model2_name, initial_prompt,
                   duration_seconds, api_key_1, api_key_2,
                   negotiation_start_time, turn_counter,
                   current_message, sends, pause_exc>>
    /\ UNCHANGED <<envVars, genai_api_key, now, handlerVars, summaryVars>>

\* lines 35-37; the send of line 38 is then waiting
OpeningPause ==
    pc = "opening_pause" /\ PauseAndConfigure(api_key_1, "opening_send")

\* mutant: the opening turn advances the counter by 2
OpeningSendSkips ==
    /\ pc = "opening_send"
    /\ SendTurn(1, initial_prompt, model1_name, turn_counter,
                turn_counter + 2, "loop_check")

OpeningSend ==
    /\ pc = "opening_send"
    /\ SendTurn(1, initial_prompt, model1_name, turn_counter,
                turn_counter + 1, "loop_check")

LoopCheck == pc = "loop_check" /\ DeadlineCheck(LoopCondition, "speaker2_pause")

\* lines 53-55; the send of line 56 is then waiting
Speaker2Pause ==
    pc = "speaker2_pause" /\ PauseAndConfigure(api_key_2, "speaker2_send")

\* mutant: speaker 2 is sent the initial prompt, not the latest reply
Speaker2SendStale ==
    /\ pc = "speaker2_send"
    /\ SendTurn(2, initial_prompt, model2_name, turn_counter,
                turn_counter, "break_check")

Speaker2Send ==
    /\ pc = "speaker2_send"
    /\ SendTurn(2, current_message, model2_name, turn_counter,
                turn_counter, "break_check")

BreakCheck == pc = "break_check" /\ DeadlineCheck(~BreakCondition, "speaker1_pause")

\* lines 71-73; the send of line 74 is then waiting
Speaker1Pause ==
    pc = "speaker1_pause" /\ PauseAndConfigure(api_key_1, "speaker1_send")

\* mutant: speaker 1's turn in the loop numbered like speaker 2's before it
Speaker1SendSameIndex ==
    /\ pc = "speaker1_send"
    /\ SendTurn(1, current_message, model1_name, turn_counter,
                turn_counter + 2, "loop_check")

\* mutant: speaker 1's turn in the loop recorded under speaker 2's label
Speaker1SendMislabelled ==
    /\ pc = "speaker1_send"
    /\ SendTurn(1, current_message, model2_name, turn_counter + 1,
                turn_counter + 2, "loop_check")

Speaker1Send ==
    /\ pc = "speaker1_send"
    /\ SendTurn(1, current_message, model1_name, turn_counter + 1,
                turn_counter + 2, "loop_check")

\* a caller other than the request handler calls run_negotiation with all
\* eight arguments, in a process that has GOOGLE_API_KEY_2 not set (the run
\* reads neither module global)
CallRunNegotiation ==
    /\ pc = "idle" /\ hpc = "idle"
    /\ API_KEY_2 = GetenvDefault(None, API_KEY_1)
    /\ \E lp \in LabelPairs, p \in Prompts, d \in Durations, e \in BOOLEAN :
          RunNegotiation([model1_session |-> 1, model2_session |-> 2,
                          model1_name |-> lp[1], model2_name |-> lp[2],
                          initial_prompt |-> p, duration_seconds |-> d,
                          api_key_1 |-> "k1", api_key_2 |-> "k2"],
                         "direct", e)
    /\ UNCHANGED <<envVars, genai_api_key, now, handlerVars, summaryVars>>

(* ----------------------------- api_server ----------------------------- *)

\* whether the summarizer client and model can be built: they are, or the
\* constructor raises
BuildOutcomes ==
    {[kind |-> "ok", text |-> "", exc |-> "none"]}
    \cup {[kind |-> "init_fail", text |-> e, exc |-> "Exception"] : e \in Errors}

\* how the awaited generate_content_async call ends: it returns a text, it
\* raises an Exception, or the awaiting task gets a BaseException
\* (asyncio.CancelledError when the task is cancelled)
SummarizerOutcomes ==
    {[kind |-> "ok", text |-> "summary", exc |-> "none"]}
    \cup {[kind |-> "call_fail", text |-> e, exc |-> k] :
              e \in Errors, k \in ExceptionKinds}

\* "\n".join(lines)
RECURSIVE JoinLines(_)
JoinLines(lines) ==
    IF lines = <<>> THEN ""
    ELSE IF Len(lines) = 1 THEN lines[1]
    ELSE lines[1] \o "\n" \o JoinLines(Tail(lines))

\* mutant: the digest lines without the speaker
DigestLinesNoSpeaker(t) ==
    LET kept == SelectSeq(t, LAMBDA item : ~IsError(item))
    IN [i \in 1..Len(kept) |-> kept[i].message]

\* [f"{item['speaker']}: {item['message']}" for item in transcript
\*  if 'error' not in item]
DigestLines(t) ==
    LET kept == SelectSeq(t, LAMBDA item : ~IsError(item))
    IN [i \in 1..Len(kept) |-> kept[i].speaker \o ": " \o kept[i].message]

ConversationLog(t) == JoinLines(DigestLines(t))

\* mutant: no except clause, the exception leaves get_negotiation_summary
SummaryExceptPropagates(e, exc) == Raised

\* except Exception as e: return f"Could not generate summary: {e}"; a raise
\* that is no Exception leaves get_negotiation_summary
SummaryExcept(e, exc) ==
    IF exc = "Exception" THEN SummaryFailPrefix \o e ELSE Raised

\* the prompt get_negotiation_summary sends: the template filled with the
\* topic and the digest
SummaryPrompt(t, topic) ==
    [topic |-> topic, conversation_log |-> ConversationLog(t)]

\* mutants of get_negotiation_summary: the check for an empty transcript
\* left out, and a transcript without turn records treated as empty
GetNegotiationSummaryNoEmptyCheck(t, topic, o) ==
    IF ~Truthy(API_KEY_1)
    THEN [done |-> TRUE, result |-> KeyMissingMsg, prompts |-> <<>>]
    ELSE IF o.kind = "init_fail"
    THEN [done |-> TRUE, result |-> SummaryExcept(o.text, o.exc), prompts |-> <<>>]
    ELSE [done |-> FALSE, result |-> None, prompts |-> <<SummaryPrompt(t, topic)>>]
GetNegotiationSummaryErrorsAsEmpty(t, topic, o) ==
    IF DigestLines(t) = <<>>
    THEN [done |-> TRUE, result |-> FixedMsg, prompts |-> <<>>]
    ELSE IF ~Truthy(API_KEY_1)
    THEN [done |-> TRUE, result |-> KeyMissingMsg, prompts |-> <<>>]
    ELSE IF o.kind = "init_fail"
    THEN [done |-> TRUE, result |-> SummaryExcept(o.text, o.exc), prompts |-> <<>>]
    ELSE [done |-> FALSE, result |-> None, prompts |-> <<SummaryPrompt(t, topic)>>]

\* get_negotiation_summary(transcript, topic) up to its await, when building
\* the summarizer ends as o: either it has returned a string (done), or it
\* has sent its prompt and is suspended in generate_content_async
GetNegotiationSummary(t, topic, o) ==
    IF t = <<>>
    THEN [done |-> TRUE, result |-> FixedMsg, prompts |-> <<>>]
    ELSE IF ~Truthy(API_KEY_1)
    THEN [done |-> TRUE, result |-> KeyMissingMsg, prompts |-> <<>>]
    ELSE IF o.kind = "init_fail"
    THEN [done |-> TRUE, result |-> SummaryExcept(o.text, o.exc), prompts |-> <<>>]
    ELSE [done |-> FALSE, result |-> None, prompts |-> <<SummaryPrompt(t, topic)>>]

\* get_negotiation_summary after its await, the call having ended as o:
\* return response.text, or the except clause
SummaryAfterAwait(o) ==
    IF o.kind = "ok" THEN o.text ELSE SummaryExcept(o.text, o.exc)

\* the keyword arguments start_negotiation_endpoint passes to run_negotiation
HandlerKwargs(request) ==
    [model1_session |-> 1, model2_session |-> 2,
     model1_name |-> request.labels[1], model2_name |-> request.labels[2],
     initial_prompt |-> request.initial_prompt,
     duration_seconds |-> request.duration_seconds]

\* the response start_negotiation_endpoint assembles
FinalResponse(topic, elapsed, text, t) ==
    [status |-> 200,
     negotiation_summary |-> [topic |-> topic, duration_seconds |-> elapsed,
                              outcome_analysis |-> text],
     participants |-> <<model1_name, model2_name>>,
     transcript |-> t]

\* HTTPException(status_code=500, detail=...), or an exception the endpoint
\* does not catch, which the framework answers with status 500
ErrorResponse(detail) == [status |-> 500, detail |-> detail]

\* start_negotiation_endpoint up to its call of run_negotiation; built says
\* whether the clients, models and chats can be constructed
StartNegotiationEndpoint ==
    /\ hpc = "idle" /\ pc = "idle"
    /\ \E lp \in LabelPairs, p \in Prompts, tp \in Topics, d \in Durations,
          built \in {"ok"} \cup Errors, e \in BOOLEAN :
          LET request == [topic |-> tp, duration_seconds |-> d, labels |-> lp,
                          initial_prompt |-> p]
          IN  IF ~Truthy(API_KEY_1) \/ ~Truthy(API_KEY_2)
              THEN /\ hpc' = "http500_config"
                   /\ response' = ErrorResponse(ConfigDetail)
                   /\ UNCHANGED <<chats, engineVars>>
              ELSE IF built # "ok"
              THEN /\ hpc' = "http500_init"
                   /\ response' = ErrorResponse(InitFailPrefix \o built)
                   /\ UNCHANGED <<chats, engineVars>>
              ELSE IF ~ArgumentsBind(HandlerKwargs(request))
              THEN /\ hpc' = "raised"
                   /\ chats' = <<[api_key |-> API_KEY_1], [api_key |-> API_KEY_2]>>
                   /\ response' = ErrorResponse(BindingError)
                   /\ UNCHANGED engineVars
              ELSE /\ hpc' = "running"
                   /\ chats' = <<[api_key |-> API_KEY_1], [api_key |-> API_KEY_2]>>
                   /\ response' = response
                   /\ RunNegotiation(HandlerKwargs(request), "handler", e)
    /\ UNCHANGED <<envVars, genai_api_key, now, summaryVars>>

\* run_negotiation is a plain function that pauses with time.sleep and sends
\* with a blocking send_message: from the call until it ends, the thread
\* that called it (for start_negotiation_endpoint, a coroutine that calls it
\* directly, the event loop thread) runs nothing else
CallerThreadHeld == pc \notin {"idle", "done"}

\* the transcripts get_negotiation_summary is called with: the one a finished
\* run returned, or an empty list
SummaryInputs ==
    IF pc = "done" /\ outcome = "returned" THEN {transcript}
    ELSE IF pc = "idle" THEN {<<>>} ELSE {}

\* the rest of start_negotiation_endpoint once get_negotiation_summary has
\* ended with result: the final response with the time measured now (at),
\* or the exception going on through the endpoint
HandlerAfterSummary(topic, result, t, at, e) ==
    IF hpc # "running" THEN UNCHANGED handlerVars
    ELSE IF result = Raised
    THEN /\ hpc' = "raised"
         /\ response' = ErrorResponse(e)
         /\ chats' = chats
    ELSE /\ hpc' = "responded"
         /\ response' = FinalResponse(topic, at - negotiation_start_time, result, t)
         /\ chats' = chats

\* a call of get_negotiation_summary, up to its return or to its await; when
\* the request handler makes it and it returns at once, the handler assembles
\* the final response
CallGetNegotiationSummary ==
    /\ summary_pc = "idle"
    /\ hpc \in {"idle", "running"}
    /\ \E t \in SummaryInputs, tp \in Topics, o \in BuildOutcomes :
          LET got == GetNegotiationSummary(t, tp, o)
          IN  /\ summary_input' = t
              /\ summarizer_prompts' = summarizer_prompts \o got.prompts
              /\ IF got.done
                 THEN /\ summary' = got.result
                      /\ summary_pc' = "returned"
                      /\ summary_exc' = IF got.prompts = <<>> /\ t # <<>>
                                           /\ Truthy(API_KEY_1)
                                        THEN o.exc ELSE "none"
                      /\ HandlerAfterSummary(tp, got.result, t, now, o.text)
                 ELSE /\ summary' = summary
                      /\ summary_pc' = "awaiting"
                      /\ summary_exc' = summary_exc
                      /\ UNCHANGED handlerVars
    /\ UNCHANGED <<envVars, genai_api_key, now, engineVars>>

\* the awaited generate_content_async call ends after c seconds and
\* get_negotiation_summary returns or raises; when the request handler
\* awaits it, the handler reads the end time and assembles the response
SummarizerReturns ==
    /\ summary_pc = "awaiting"
    /\ \E c \in CallTimes, o \in SummarizerOutcomes :
          LET result == SummaryAfterAwait(o)
          IN  /\ now' = now + c
              /\ summary' = result
              /\ summary_pc' = IF result = Raised THEN "raised" ELSE "returned"
              /\ summary_exc' = o.exc
              /\ HandlerAfterSummary(summarizer_prompts[Len(summarizer_prompts)].topic,
                                     result, summary_input, now + c, o.text)
    /\ UNCHANGED <<summary_input, summarizer_prompts>>
    /\ UNCHANGED <<envVars, genai_api_key, engineVars>>

(* --------------------------- specification ---------------------------- *)

Init ==
    /\ API_KEY_1 \in EnvValues1
    /\ \E v \in EnvValues2 : API_KEY_2 = GetenvDefault(v, API_KEY_1)
    /\ genai_api_key = None
    /\ now = 100
    /\ pc = "idle"
    /\ caller = "nobody"
    /\ echo = FALSE
    /\ model1_name = "" /\ model2_name = "" /\ initial_prompt = ""
    /\ duration_seconds = 0
    /\ api_key_1 = None /\ api_key_2 = None
    /\ negotiation_start_time = 100
    /\ transcript = <<>>
    /\ turn_counter = 0
    /\ current_message = ""
    /\ outcome = "running"
    /\ sends = <<>> /\ pause_exc = "none" /\ print_failed = FALSE
    /\ hpc = "idle" /\ chats = <<>> /\ response = [status |-> 0]
    /\ summary = None /\ summary_input = <<>> /\ summarizer_prompts = <<>>
    /\ summary_pc = "idle" /\ summary_exc = "none"

Next ==
    \/ CallRunNegotiation
    \/ OpeningPause
    \/ OpeningSend
    \/ LoopCheck
    \/ Speaker2Pause
    \/ Speaker2Send
    \/ BreakCheck
    \/ Speaker1Pause
    \/ Speaker1Send
    \/ StartNegotiationEndpoint
    \/ CallGetNegotiationSummary
    \/ SummarizerReturns

Spec == Init /\ [][Next]_vars

\* every call returns and every pause ends: a step that can be taken is taken
FairSpec == Spec /\ WF_vars(Next)

(* ------------------------------ properties ---------------------------- *)

Started == pc # "idle"
\* the run is over / it reached DONE: it returned its transcript
Ended == pc = "done"
Done == pc = "done" /\ outcome = "returned"
Elapsed == now - negotiation_start_time
Deadline == negotiation_start_time + duration_seconds
TurnRecords == SelectSeq(transcript, LAMBDA item : ~IsError(item))
ErrorRecords == SelectSeq(transcript, LAMBDA item : IsError(item))
\* the position in sends of the send that raised, 0 when none did
FailedSend ==
    IF \E n \in 1..Len(sends) : ~sends[n].ok
    THEN CHOOSE n \in 1..Len(sends) : ~sends[n].ok
    ELSE 0
IsPrefix(s, t) == Len(s) <= Len(t) /\ SubSeq(t, 1, Len(s)) = s

\* C1: run_negotiation always returns its transcript and never lets an
\* exception out: a run that has ended has ended by returning, wherever a
\* send failed and whatever the duration, and a send that fails ends the run.
C1_AlwaysReturns ==
    /\ outcome # "raised"
    /\ pc = "done" <=> outcome = "returned"
    /\ FailedSend # 0 => Done

\* C2: once both credentials are configured and both sessions are built, the
\* request completes with the full payload and no error reaches the caller.
C2_HandlerCompletes ==
    chats # <<>> => hpc \in {"running", "responded"} /\ response.status # 500

\* C3: when the Nth send fails, whatever it raises, the transcript is N-1
\* turn records followed by one error record, the run is over and the
\* failed send is the last one; a step never changes a record already in
\* the transcript.
C3_FailFastState ==
    FailedSend # 0 =>
        /\ FailedSend = Len(sends)
        /\ Done
        /\ Len(transcript) = FailedSend
        /\ \A i \in 1..(FailedSend - 1) : ~IsError(transcript[i])
        /\ IsError(transcript[FailedSend])
C3_FailFast ==
    /\ []C3_FailFastState
    /\ [][/\ IsPrefix(transcript, transcript')
          /\ FailedSend # 0 => sends' = sends /\ transcript' = transcript]_vars

\* C4: the turn records alternate speakers starting with speaker 1, and with
\* distinct labels no two consecutive records carry the same label; the
\* transcript may end on either speaker.
C4_Alternation ==
    /\ \A i \in 1..Len(TurnRecords) :
          TurnRecords[i].speaker = IF i % 2 = 1 THEN model1_name ELSE model2_name
    /\ model1_name # model2_name =>
          \A i \in 1..(Len(TurnRecords) - 1) :
              TurnRecords[i].speaker # TurnRecords[i + 1].speaker

\* a finished run of two full cycles that ended on speaker 2
C4_Witness ==
    /\ Done /\ model1_name # model2_name
    /\ Len(TurnRecords) = 4 /\ Len(transcript) = 4

\* C5: with duration_seconds <= 0 only the opening send to session 1 is
\* made, the loop body is never entered, and the transcript returned is one
\* record: the opening turn with index 0 or an error record.
C5_NonPositiveDuration ==
    (Started /\ duration_seconds <= 0) =>
        /\ Len(sends) <= 1
        /\ \A n \in 1..Len(sends) :
              sends[n].to = 1 /\ sends[n].message = initial_prompt
        /\ pc \in {"opening_pause", "opening_send", "loop_check", "done"}
        /\ Done =>
              /\ Len(transcript) = 1
              /\ \/ IsError(transcript[1])
                 \/ /\ transcript[1].turn = 0
                    /\ transcript[1].speaker = model1_name

\* the sends that ended, and so the records appended, at or after the deadline
LateRecords == {n \in 1..Len(sends) : sends[n].finished >= Deadline}

\* C6: when every send and every pause returns, a run that started reaches
\* DONE, and at most one record is appended once the deadline has passed.
C6_Termination ==
    /\ Started ~> (Done \/ pause_exc # "none" \/ FailedSend # 0)
    /\ [](Cardinality(LateRecords) <= 1)

\* C7 as stated: every send made inside the loop begins before the deadline.
C7_SendsBeginBeforeDeadline ==
    \A n \in 2..Len(sends) : sends[n].started - negotiation_start_time < duration_seconds

\* C7 as amended: every turn of the loop begins its pacing pause before the
\* deadline, admitted by a check made when the send before it had ended;
\* the send of the turn begins at least the shortest pause (2 seconds) after
\* that check, and so possibly at or after the deadline.
C7_TurnsBeginBeforeDeadline ==
    /\ pc \in {"speaker2_pause", "speaker1_pause"} =>
          now - negotiation_start_time < duration_seconds
    /\ \A n \in 2..Len(sends) :
          /\ sends[n - 1].finished - negotiation_start_time < duration_seconds
          /\ sends[n].started - sends[n - 1].finished >= 2

\* a send of the loop that began after the deadline
C7_Witness ==
    \E n \in 2..Len(sends) :
        sends[n].started > negotiation_start_time + duration_seconds

\* C8 as stated: two echoing sessions and duration_seconds = 1 give the
\* opening turn followed by speaker 2's turn.
C8_EchoOneSecond ==
    (Done /\ echo /\ duration_seconds = 1) =>
        transcript = <<TurnData(0, model1_name, "ack:" \o initial_prompt),
                       TurnData(1, model2_name, "ack:ack:" \o initial_prompt)>>

\* C8 as amended: a re-check after speaker 2's turn that finds the deadline
\* expired ends the run with no further send, the transcript ending on that
\* speaker 2 record, and the run returns unless its closing print raises;
\* when no send, pause or print raises, two echoing sessions give exactly
\* the two records if the run ends at the first such re-check, and with
\* duration_seconds = 1 they give the opening turn alone.
C8_EarlyExitStep ==
    (pc = "break_check" /\ now - negotiation_start_time >= duration_seconds) =>
        /\ pc' = "done"
        /\ print_failed' = print_failed => outcome' = "returned"
        /\ sends' = sends /\ transcript' = transcript
        /\ transcript[Len(transcript)].speaker = model2_name
        /\ Len(transcript) % 2 = 0
C8_EchoState ==
    (/\ pc = "done" /\ outcome = "returned" /\ echo
     /\ pause_exc = "none" /\ ~print_failed) =>
        /\ Len(transcript) = 2 =>
              transcript = <<TurnData(0, model1_name, "ack:" \o initial_prompt),
                             TurnData(1, model2_name, "ack:ack:" \o initial_prompt)>>
        /\ duration_seconds = 1 =>
              transcript = <<TurnData(0, model1_name, "ack:" \o initial_prompt)>>
C8_EarlyExit == []C8_EchoState /\ [][C8_EarlyExitStep]_vars

\* an echoing run that left the loop at the re-check after speaker 2's turn
C8_Witness ==
    /\ Done /\ echo /\ Len(transcript) = 2
    /\ pause_exc = "none" /\ ~print_failed
    /\ transcript[2].message = "ack:ack:p"

\* C9: summarizing an empty transcript issues no remote call and returns the
\* fixed sentence.
C9_EmptyTranscript ==
    (summary # None /\ summary_input = <<>>) =>
        /\ summary = "The negotiation did not start or an error occurred."
        /\ summarizer_prompts = <<>>

\* an empty transcript summarized while the primary credential is configured
C9_Witness ==
    /\ summary # None /\ summary_input = <<>>
    /\ Truthy(API_KEY_1)

\* the transcript of a run whose opening send raised has been summarized
OpeningFailedAndSummarized ==
    /\ FailedSend = 1 /\ sends[1].to = 1
    /\ summary_pc = "returned" /\ summary_input = transcript

\* C10 as stated: when session 1's send raises, the transcript is one error
\* record and its summary is the fixed sentence.
C10_FailureGivesFixedSentence ==
    OpeningFailedAndSummarized =>
        /\ Len(transcript) = 1 /\ IsError(transcript[1])
        /\ summary = "The negotiation did not start or an error occurred."

\* C10 as amended: when session 1's send raises an Exception and the run
\* records it, the transcript is one error record holding its text; that
\* transcript is not empty, so its summary is never the fixed sentence: with
\* the primary credential the summarizer is used, any call to it carrying an
\* empty digest, and the result is its text or the "Could not generate
\* summary" string; without the credential it is the "API key not
\* configured" string.
C10_FailureIsSummarized ==
    /\ (/\ pc = "done" /\ outcome = "returned" /\ ~print_failed
        /\ Len(sends) = 1 /\ ~sends[1].ok /\ sends[1].exc = "Exception") =>
          transcript = <<ErrorRecord(sends[1].reply)>>
    /\ (OpeningFailedAndSummarized /\ Len(transcript) = 1) =>
          /\ IsError(transcript[1])
          /\ summary # "The negotiation did not start or an error occurred."
          /\ \A i \in 1..Len(summarizer_prompts) :
                summarizer_prompts[i].conversation_log = ""
          /\ IF API_KEY_1 # None /\ API_KEY_1 # ""
             THEN \/ summary = "summary" /\ Len(summarizer_prompts) = 1
                  \/ \E e \in Errors :
                        /\ summary = "Could not generate summary: " \o e
                        /\ Len(summarizer_prompts) <= 1
             ELSE /\ summary = "Summarization failed: API key not configured."
                  /\ summarizer_prompts = <<>>

\* the error-only transcript went to the summarizer, which answered
C10_Witness ==
    /\ OpeningFailedAndSummarized
    /\ transcript = <<ErrorRecord("quota")>>
    /\ summary = "summary" /\ Len(summarizer_prompts) = 1

\* get_negotiation_summary has been called and has ended
Summarized == summary # None

\* the strings get_negotiation_summary can hand back
SummaryStrings ==
    {"The negotiation did not start or an error occurred.",
     "Summarization failed: API key not configured.",
     "summary"}
    \cup {"Could not generate summary: " \o e : e \in Errors}

\* C11 as stated: get_negotiation_summary always hands back a string, a real
\* summary or an explanatory one, and no exception leaves it, for every
\* transcript and however the summarizer call ends.
C11_SummaryAlwaysProduced ==
    Summarized =>
        /\ summary # Raised
        /\ summary \in SummaryStrings

\* C11 as amended: for every transcript, get_negotiation_summary hands back
\* a string whenever the summarizer call returns or raises an Exception, a
\* raised Exception giving the "Could not generate summary" string; only a
\* raise that is no Exception, reaching the function at its await of the one
\* call it issued (the cancellation of the awaiting task), leaves it.
C11_SummaryUnlessNoException ==
    /\ summary_pc = "returned" =>
          /\ summary \in SummaryStrings
          /\ summary = "summary" => Len(summarizer_prompts) = 1
    /\ summary_exc = "Exception" =>
          /\ summary_pc = "returned"
          /\ \E e \in Errors : summary = "Could not generate summary: " \o e
    /\ summary = Raised <=> summary_pc = "raised"
    /\ summary_pc = "raised" =>
          /\ summary_exc = "BaseException"
          /\ Len(summarizer_prompts) = 1
    /\ summary_pc \in {"idle", "awaiting"} => summary = None

\* a transcript of turns and an error record was summarized and the call to
\* the summarizer raised an Exception
C11_Witness ==
    /\ summary_pc = "returned" /\ summary_exc = "Exception"
    /\ Len(summary_input) >= 2 /\ IsError(summary_input[Len(summary_input)])
    /\ Len(summarizer_prompts) = 1
    /\ summary = "Could not generate summary: quota"

\* a credential slot that is missing: not set, or set to nothing
Missing(key) == key = None \/ key = ""

\* C12: when either credential is missing the request handler rejects the
\* request with the configuration error before it builds a session, calls
\* run_negotiation or makes a remote call; and it gives that error only then.
\* The second credential is the first one when its variable is not set.
C12_MissingCredentialsFatal ==
    /\ (hpc # "idle" /\ (Missing(API_KEY_1) \/ Missing(API_KEY_2))) =>
          /\ hpc = "http500_config"
          /\ response = [status |-> 500,
                         detail |-> "Google API keys are not configured on the server. Please check environment variables."]
          /\ chats = <<>>
          /\ ~Started /\ sends = <<>> /\ genai_api_key = None
          /\ summarizer_prompts = <<>>
    /\ hpc = "http500_config" => Missing(API_KEY_1) \/ Missing(API_KEY_2)
    /\ API_KEY_2 = None => API_KEY_1 = None

\* a request rejected because the second credential is set to nothing
C12_Witness ==
    /\ hpc = "http500_config"
    /\ API_KEY_1 = "k1" /\ API_KEY_2 = ""

\* C13: the turn indices increase strictly along the transcript and the
\* opening record has index 0.
C13_IndicesIncrease ==
    /\ TurnRecords # <<>> => TurnRecords[1].turn = 0
    /\ \A i, j \in 1..Len(TurnRecords) :
          i < j => TurnRecords[i].turn < TurnRecords[j].turn

\* a run of two full cycles that left the loop right after speaker 2's turn
C13_Witness ==
    /\ Done /\ ErrorRecords = <<>>
    /\ Len(transcript) = 4 /\ transcript[4].turn = 3

\* C14: the first send goes to session 1 with the initial prompt; every
\* later send goes to the other session and carries the message of the
\* latest turn record; a reply, the empty string too, is recorded as it came.
C14_MessageChaining ==
    /\ sends # <<>> => sends[1].to = 1 /\ sends[1].message = initial_prompt
    /\ \A n \in 2..Len(sends) :
          /\ sends[n].to # sends[n - 1].to
          /\ sends[n].message = transcript[n - 1].message
          /\ sends[n].message = sends[n - 1].reply
    /\ \A n \in 1..Len(sends) :
          sends[n].ok => /\ Len(transcript) >= n
                         /\ ~IsError(transcript[n])
                         /\ transcript[n].message = sends[n].reply

\* the third send carried speaker 2's reply to speaker 1's opening statement
C14_Witness ==
    /\ Len(sends) = 3 /\ sends[3].to = 1
    /\ sends[2].message = "ack:p" /\ sends[3].message = "ack:ack:p"
    /\ Len(transcript) = 3 /\ transcript[3].message = "ack:ack:ack:p"

\* "speaker: message" for every record of t that is no error record, in the
\* order of t, each line but the last followed by a newline
RECURSIVE ExpectedDigest(_)
ExpectedDigest(t) ==
    IF t = <<>> THEN ""
    ELSE LET rest == ExpectedDigest(Tail(t))
         IN  IF "error" \in DOMAIN Head(t) THEN rest
             ELSE Head(t).speaker \o ": " \o Head(t).message
                  \o (IF \E i \in 2..Len(t) : "error" \notin DOMAIN t[i]
                      THEN "\n" ELSE "")
                  \o rest

\* a transcript that is not empty was summarized with the primary credential
NonEmptySummarized ==
    /\ Summarized /\ summary_input # <<>>
    /\ ~Missing(API_KEY_1)

\* C15 as stated: a transcript that is not empty always leads to exactly one
\* call to the summarizer, with the digest of its turn records.
C15_ExactlyOneCall ==
    NonEmptySummarized =>
        /\ Len(summarizer_prompts) = 1
        /\ summarizer_prompts[1].conversation_log = ExpectedDigest(summary_input)

\* C15 as amended: at most one call is made, and exactly one unless building
\* the summarizer client or model raises, in which case none is made and the
\* "Could not generate summary" string is returned; the digest of the call
\* has one "speaker: message" line for each record that is no error record,
\* in order, and nothing of an error record, and is empty for a transcript of
\* one error record.
C15_OneCallWithDigest ==
    NonEmptySummarized =>
        /\ Len(summarizer_prompts) <= 1
        /\ summarizer_prompts = <<>> =>
              \E e \in Errors : summary = "Could not generate summary: " \o e
        /\ summary = "summary" => Len(summarizer_prompts) = 1
        /\ \A i \in 1..Len(summarizer_prompts) :
              /\ summarizer_prompts[i].conversation_log = ExpectedDigest(summary_input)
              /\ (\A k \in 1..Len(summary_input) : IsError(summary_input[k]))
                    => summarizer_prompts[i].conversation_log = ""

\* the digest of two turns with empty replies followed by an error record
\* went to the summarizer
C15_Witness ==
    /\ NonEmptySummarized /\ Len(summarizer_prompts) = 1
    /\ Len(summary_input) = 3 /\ IsError(summary_input[3])
    /\ summarizer_prompts[1].conversation_log = "Ava (Mars): \nBo (Earth): "

\* C16: a run writes no process-wide configuration: the key set with
\* genai.configure stays what it was when the process started, so no run can
\* change the credential another run's calls are made under.
C16_NoProcessWideWrites == genai_api_key = None

LabelOf(to) == IF to = 1 THEN model1_name ELSE model2_name

\* C18: the index of every turn record is its position in the transcript
\* counted from 0; the records with an even index are speaker 1's and those
\* with an odd index speaker 2's.
C18_IndexIsPosition ==
    \A i \in 1..Len(TurnRecords) :
        /\ TurnRecords[i] = transcript[i]
        /\ TurnRecords[i].turn = i - 1
        /\ TurnRecords[i].turn % 2 = 0 <=> sends[i].to = 1
        /\ TurnRecords[i].turn % 2 = 1 <=> sends[i].to = 2
        /\ TurnRecords[i].speaker = LabelOf(sends[i].to)
        /\ model1_name # model2_name =>
              /\ TurnRecords[i].turn % 2 = 0 <=> TurnRecords[i].speaker = model1_name
              /\ TurnRecords[i].turn % 2 = 1 <=> TurnRecords[i].speaker = model2_name

\* a run that left the loop after speaker 2's turn, its last record having
\* index 1
C18_Witness ==
    /\ Done /\ model1_name # model2_name
    /\ Len(transcript) = 2 /\ ~IsError(transcript[2])
    /\ transcript[2].turn = 1 /\ transcript[2].speaker = model2_name

\* every transcript run_negotiation returns has a record, and at most one
\* error record, which is the last one
C19_TranscriptShape ==
    Done => /\ Len(transcript) >= 1
            /\ Len(ErrorRecords) <= 1
            /\ ErrorRecords # <<>> => IsError(transcript[Len(transcript)])

\* C19: a returned transcript has at least one record and at most one error
\* record, the last one; so the summary step of a request whose sessions were
\* built is given a transcript that is not empty and reaches the call to the
\* summarizer.
C19_HandlerSummaryReachesCall ==
    /\ C19_TranscriptShape
    /\ (hpc \notin {"idle", "running"} /\ chats # <<>>) =>
          /\ Summarized /\ summary_input # <<>>
          /\ summary # "The negotiation did not start or an error occurred."
          /\ Len(summarizer_prompts) = 1

\* C20: the start time is taken before the opening pause of at least 2
\* seconds: after the opening send at least 2 seconds of the budget are
\* gone, a run with duration_seconds <= 2 never enters the loop and returns
\* one record, and session 2 is sent to only if the opening pause and call
\* took less than duration_seconds.
C20_OpeningConsumesBudget ==
    /\ sends # <<>> => sends[1].started - negotiation_start_time >= 2
    /\ (Started /\ duration_seconds <= 2) =>
          /\ \A n \in 1..Len(sends) : sends[n].to = 1
          /\ Len(sends) <= 1
          /\ pc \in {"opening_pause", "opening_send", "loop_check", "done"}
          /\ Done => Len(transcript) = 1
    /\ (\E n \in 1..Len(sends) : sends[n].to = 2) =>
          sends[1].finished - negotiation_start_time < duration_seconds

====
